---- MODULE Spec2Model ----
(***************************************************************************)
(* Model of agentstack/templates/crewai/tools/agent_connect_tool.py:       *)
(* the load-or-create routine generate_did_info run at module import by    *)
(* every process start, the module-level start-up sequence, and the three  *)
(* tool wrappers connect_to_agent, send_message and receive_message.       *)
(***************************************************************************)
EXTENDS Integers, Sequences, FiniteSets, TLC

\* Number of process starts (imports of the module) that are modelled.
NProcs == 2
\* Deepest directory nesting of the credential path that is modelled.
MaxDepth == 2

Procs == 1..NProcs

VARIABLES
    did_document_path,  \* the path read from DID_DOCUMENT_PATH (line 19)
    dirs,               \* directories that exist (paths relative to the cwd)
    fileExists,         \* os.path.exists(did_document_path)
    fileText,           \* contents of the file, a sequence of JSON tokens
    pc,                 \* per process: position in the module-level code
    nodeDid,            \* per process: identity held by the node (set_did_info)
    did_info,           \* per process: bundle obtained by generate_did_info
    err,                \* per process: exception that ended the import, or "none"
    nextId,             \* number of identities generated so far
    lastWriter,         \* process that last opened/wrote the file, 0 = none
    generated,          \* per process: node.generate_did_document() was called
    wrote,              \* per process: the file or directory tree was changed
    envFault,           \* the storage refused an operation (disk full, ...)
    file0,              \* the file as it was before any process started
    dirs0,              \* the directories as they were before any process started
    toolCall            \* the last tool call: operation, inputs, outcome, result

vars == <<did_document_path, dirs, fileExists, fileText, pc, nodeDid, did_info,
          err, nextId, lastWriter, generated, wrote, envFault, file0, dirs0,
          toolCall>>

credVars == <<did_document_path, dirs, fileExists, fileText, pc, nodeDid,
              did_info, err, nextId, lastWriter, generated, wrote, envFault,
              file0, dirs0>>

----------------------------------------------------------------------------
\* Paths and the directory tree.

\* A path is a sequence of components: directories 1..k and the file name 0.
PathOfDepth(k) == [i \in 1..(k + 1) |-> IF i <= k THEN i ELSE 0]

Paths == {PathOfDepth(k) : k \in 0..MaxDepth}

\* os.path.dirname: everything but the last component ("" for a bare name).
Dirname(path) == SubSeq(path, 1, Len(path) - 1)

\* The non-empty prefixes of a directory path: what os.makedirs creates.
Ancestors(dir) == {SubSeq(dir, 1, n) : n \in 1..Len(dir)}

\* A directory is usable when it is the cwd ("") or exists.
DirExists(dir, ds) == dir = <<>> \/ dir \in ds

----------------------------------------------------------------------------
\* The credential bundle and its JSON form.

FieldNames == <<"private_key_pem", "did", "did_document_json">>

Bundle(k, d, j) == [private_key_pem |-> k, did |-> d, did_document_json |-> j]

\* The node before set_did_info: no identity.
NoDid == Bundle(0, 0, 0)

\* Faulty variant: the generator hands out the same identity every time.
GenerateDidDocumentFixed(n) == Bundle(1, 2, 3)

\* node.generate_did_document(): a fresh identity, the n-th one handed out.
\* Its three strings are distinct from those of every other identity.
GenerateDidDocument(n) == Bundle(4 * n + 1, 4 * n + 2, 4 * n + 3)

\* The identity of a record placed on disk before any process started.
ExistingDid == GenerateDidDocument(0)

Tok(n, v) == [name |-> n, value |-> v]

\* Faulty variant: the did and the key are stored under each other's name.
JsonDumpSwapped(b) ==
    << Tok("{", 0),
       Tok("private_key_pem", b.did),
       Tok("did", b.private_key_pem),
       Tok("did_document_json", b.did_document_json),
       Tok("}", 0) >>

\* json.dump({...}, f, indent=2): the object's tokens in insertion order.
JsonDump(b) ==
    << Tok("{", 0),
       Tok("private_key_pem", b.private_key_pem),
       Tok("did", b.did),
       Tok("did_document_json", b.did_document_json),
       Tok("}", 0) >>

\* json.load accepts the text when it is one complete object.
JsonValid(text) ==
    /\ Len(text) >= 2
    /\ text[1].name = "{"
    /\ text[Len(text)].name = "}"
    /\ \A i \in 2..(Len(text) - 1) : text[i].name \notin {"{", "}", "garbage"}

\* Keys of the parsed object.
JsonKeys(text) == {text[i].name : i \in 2..(Len(text) - 1)}

\* obj[key]: the value of the last member with that name.  A missing key
\* raises KeyError, which LoadError reports; 0 stands for "no value" then.
JsonGet(text, key) ==
    LET idx == {i \in 2..(Len(text) - 1) : text[i].name = key}
    IN IF idx = {} THEN 0
       ELSE text[CHOOSE i \in idx : \A j \in idx : j <= i].value

\* Faulty variant: the fields are read with a default (dict.get), so a
\* missing field raises nothing.
LoadErrorNoKeyCheck(text) ==
    IF ~JsonValid(text) THEN "JSONDecodeError" ELSE "none"

\* Lines 35-41: the exception raised by json.load or by a did_info[...]
\* lookup, "none" when the record parses into the three fields.
LoadError(text) ==
    IF ~JsonValid(text) THEN "JSONDecodeError"
    ELSE IF \E i \in 1..3 : FieldNames[i] \notin JsonKeys(text) THEN "KeyError"
    ELSE "none"

\* Lines 37-41: the bundle handed to set_did_info.
LoadBundle(text) ==
    Bundle(JsonGet(text, "private_key_pem"),
           JsonGet(text, "did"),
           JsonGet(text, "did_document_json"))

\* f.write on a file opened with "w": the first n chunks land at offset 0,
\* over whatever the file holds there; what lies beyond them stays.
WriteAt(text, chunks, n) ==
    [i \in 1..(IF Len(text) > n THEN Len(text) ELSE n) |->
        IF i <= n THEN chunks[i] ELSE text[i]]

----------------------------------------------------------------------------
\* Files that may be found at the path before the first start.

ValidRecord == JsonDump(ExistingDid)

MalformedRecords ==
    { <<>>,                                           \* empty file
      << Tok("garbage", 0) >>,                        \* not JSON
      SubSeq(ValidRecord, 1, 3),                       \* truncated object
      << ValidRecord[1], ValidRecord[3], ValidRecord[4], ValidRecord[5] >>,
      << ValidRecord[1], ValidRecord[2], ValidRecord[4], ValidRecord[5] >>,
      << ValidRecord[1], ValidRecord[2], ValidRecord[3], ValidRecord[5] >>,
      << ValidRecord[1], ValidRecord[5] >> }           \* {}

NoCall == [op |-> "none", proc |-> 0, arg |-> "none", kind |-> "none",
           val |-> "none", rkind |-> "none", rval |-> "none"]

Init ==
    /\ did_document_path \in Paths
    /\ \E e \in 0..Len(Dirname(did_document_path)) :
          dirs = Ancestors(SubSeq(did_document_path, 1, e))
    /\ fileExists \in BOOLEAN
    /\ fileExists => DirExists(Dirname(did_document_path), dirs)
    /\ fileText \in (IF fileExists THEN {ValidRecord} \cup MalformedRecords
                                   ELSE {<<>>})
    /\ pc = [p \in Procs |-> "idle"]
    /\ nodeDid = [p \in Procs |-> NoDid]
    /\ did_info = [p \in Procs |-> NoDid]
    /\ err = [p \in Procs |-> "none"]
    /\ nextId = 0
    /\ lastWriter = 0
    /\ generated = [p \in Procs |-> FALSE]
    /\ wrote = [p \in Procs |-> FALSE]
    /\ envFault = FALSE
    /\ file0 = [exists |-> fileExists, text |-> fileText]
    /\ dirs0 = dirs
    /\ toolCall = NoCall

----------------------------------------------------------------------------
\* The module-level code of one process.

\* Faulty variant: the exception is caught around line 72 and the import
\* goes on to line 73.
RaiseSwallowed(p, e) ==
    /\ pc' = [pc EXCEPT ![p] = "run"]
    /\ err' = [err EXCEPT ![p] = e]

\* An exception leaves generate_did_info and the import: line 73 is not
\* reached and nothing catches it.
Raise(p, e) ==
    /\ pc' = [pc EXCEPT ![p] = "failed"]
    /\ err' = [err EXCEPT ![p] = e]

\* Lines 9-71: the process starts, reads its configuration, builds the node.
Start(p) ==
    /\ pc[p] = "idle"
    /\ pc' = [pc EXCEPT ![p] = "exists"]
    /\ UNCHANGED <<did_document_path, dirs, fileExists, fileText, nodeDid,
                   did_info, err, nextId, lastWriter, generated, wrote,
                   envFault, file0, dirs0, toolCall>>

\* Faulty variant: the test asks for a directory (os.path.isdir), which the
\* credential file never is.
PathIsDir(p) == FALSE

\* Line 33: os.path.exists(did_document_path).
PathExists(p) == fileExists

CheckExists(p) ==
    /\ pc[p] = "exists"
    /\ pc' = [pc EXCEPT ![p] = IF PathExists(p) THEN "load" ELSE "generate"]
    /\ UNCHANGED <<did_document_path, dirs, fileExists, fileText, nodeDid,
                   did_info, err, nextId, lastWriter, generated, wrote,
                   envFault, file0, dirs0, toolCall>>

\* Lines 34-41: read and parse the record, look the three fields up, hand
\* them to the node.
Load(p) ==
    /\ pc[p] = "load"
    /\ IF LoadError(fileText) # "none"
       THEN /\ Raise(p, LoadError(fileText))
            /\ UNCHANGED <<nodeDid, did_info>>
       ELSE /\ nodeDid' = [nodeDid EXCEPT ![p] = LoadBundle(fileText)]
            /\ did_info' = [did_info EXCEPT ![p] = LoadBundle(fileText)]
            /\ pc' = [pc EXCEPT ![p] = "run"]
            /\ UNCHANGED err
    /\ UNCHANGED <<did_document_path, dirs, fileExists, fileText, nextId,
                   lastWriter, generated, wrote, envFault, file0, dirs0,
                   toolCall>>

\* Lines 43-45: generate a fresh identity and hand it to the node.
Generate(p) ==
    /\ pc[p] = "generate"
    /\ nextId' = nextId + 1
    /\ nodeDid' = [nodeDid EXCEPT ![p] = GenerateDidDocument(nextId')]
    /\ did_info' = [did_info EXCEPT ![p] = GenerateDidDocument(nextId')]
    /\ generated' = [generated EXCEPT ![p] = TRUE]
    /\ pc' = [pc EXCEPT ![p] = "makedirs"]
    /\ UNCHANGED <<did_document_path, dirs, fileExists, fileText, err,
                   lastWriter, wrote, envFault, file0, dirs0, toolCall>>

\* Line 48: os.makedirs(os.path.dirname(path), exist_ok=True).  The name ""
\* of a path without directory component raises FileNotFoundError.
MakedirsArg(path) == Dirname(path)

Makedirs(p) ==
    /\ pc[p] = "makedirs"
    /\ IF MakedirsArg(did_document_path) = <<>>
       THEN /\ Raise(p, "FileNotFoundError")
            /\ UNCHANGED <<dirs, wrote, envFault>>
       ELSE \/ /\ dirs' = dirs \cup Ancestors(MakedirsArg(did_document_path))
               /\ wrote' = [wrote EXCEPT ![p] = wrote[p] \/ dirs' # dirs]
               /\ pc' = [pc EXCEPT ![p] = "open"]
               /\ UNCHANGED <<err, envFault>>
            \/ /\ Raise(p, "OSError")
               /\ envFault' = TRUE
               /\ UNCHANGED <<dirs, wrote>>
    /\ UNCHANGED <<did_document_path, fileExists, fileText, nodeDid, did_info,
                   nextId, lastWriter, generated, file0, dirs0, toolCall>>

\* Line 49: open(path, "w") creates the file or truncates it.
OpenW(p) ==
    /\ pc[p] = "open"
    /\ \/ /\ DirExists(Dirname(did_document_path), dirs)
          /\ fileExists' = TRUE
          /\ fileText' = <<>>
          /\ lastWriter' = p
          /\ wrote' = [wrote EXCEPT ![p] = TRUE]
          /\ pc' = [pc EXCEPT ![p] = "dump"]
          /\ UNCHANGED <<err, envFault>>
       \/ /\ Raise(p, "OSError")
          /\ envFault' = TRUE
          /\ UNCHANGED <<fileExists, fileText, lastWriter, wrote>>
    /\ UNCHANGED <<did_document_path, dirs, nodeDid, did_info, nextId,
                   generated, file0, dirs0, toolCall>>

\* Lines 50-55: json.dump into the buffered file, flushed when the with
\* block closes it.  All chunks reach the disk, or, when the storage gives
\* out or the process is interrupted, only the first n of them.
Dump(p) ==
    /\ pc[p] = "dump"
    /\ \E n \in 0..Len(JsonDump(did_info[p])) :
          /\ fileText' = WriteAt(fileText, JsonDump(did_info[p]), n)
          /\ IF n = Len(JsonDump(did_info[p]))
             THEN /\ pc' = [pc EXCEPT ![p] = "run"]
                  /\ UNCHANGED <<err, envFault>>
             ELSE /\ Raise(p, "OSError")
                  /\ envFault' = TRUE
    /\ lastWriter' = p
    /\ UNCHANGED <<did_document_path, dirs, fileExists, nodeDid, did_info,
                   nextId, generated, wrote, file0, dirs0, toolCall>>

\* Line 73: agent_connect_simple_node.run().
Run(p) ==
    /\ pc[p] = "run"
    /\ pc' = [pc EXCEPT ![p] = "running"]
    /\ UNCHANGED <<did_document_path, dirs, fileExists, fileText, nodeDid,
                   did_info, err, nextId, lastWriter, generated, wrote,
                   envFault, file0, dirs0, toolCall>>

\* A process inside generate_did_info (line 72).
InCall(p) == pc[p] \in {"exists", "load", "generate", "makedirs", "open", "dump"}

Step(p) ==
    \/ CheckExists(p)
    \/ Load(p)
    \/ Generate(p)
    \/ Makedirs(p)
    \/ OpenW(p)
    \/ Dump(p)
    \/ Run(p)

\* Processes start at any time: their calls may overlap.
Next == \E p \in Procs : Start(p) \/ Step(p)

Spec == Init /\ [][Next]_vars

\* Processes start one after the other: a start waits until no other
\* process is inside generate_did_info.
StartSeq(p) == Start(p) /\ \A q \in Procs : ~InCall(q)

NextSeq == \E p \in Procs : StartSeq(p) \/ Step(p)

SpecSeq == Init /\ [][NextSeq]_vars

----------------------------------------------------------------------------
\* The tool wrappers (lines 75-128).  Each makes one call into the node or
\* the session; the outcome of that call is an input of the wrapper.

Ret(v) == [kind |-> "return", val |-> v]
Exc(e) == [kind |-> "raise", val |-> e]

Dids == {"did:peer", "did:example:unreachable"}
Sessions == {"session1", "session2"}
Messages == {"hello", "bye"}

\* Exceptions an awaited library call can raise.  The first three derive
\* from Exception; CancelledError, KeyboardInterrupt and SystemExit derive
\* from BaseException only.
Raisable == {"ConnectionError", "TimeoutError", "AttributeError",
             "CancelledError", "KeyboardInterrupt", "SystemExit"}

\* isinstance(e, Exception): what "except Exception" catches.
IsException(e) == e \in {"ConnectionError", "TimeoutError", "AttributeError"}

\* bool(v) as "if session:" and "if success:" evaluate it.
Truthy(v) == v \notin {"None", "False"}

\* node.connect_to_did(destination_did): a session, None, or an exception.
ConnectOutcomes == {Ret(s) : s \in Sessions \cup {"None"}}
                   \cup {Exc(e) : e \in Raisable \ {"AttributeError"}}

\* session.send_message(message): a success flag, or an exception; on None
\* in place of a session the attribute lookup raises AttributeError.
SendOutcomes(session) ==
    IF session = "None" THEN {Exc("AttributeError")}
    ELSE {Ret(v) : v \in {"True", "False", "None"}}
         \cup {Exc(e) : e \in Raisable \ {"AttributeError"}}

\* session.receive_message(): a message, None, or an exception.
ReceiveOutcomes(session) ==
    IF session = "None" THEN {Exc("AttributeError")}
    ELSE {Ret(v) : v \in Messages \cup {"None"}}
         \cup {Exc(e) : e \in Raisable \ {"AttributeError"}}

\* Faulty variant: no try/except around the awaited call.
connect_to_agent_uncaught(out) ==
    IF out.kind = "raise" THEN out
    ELSE IF Truthy(out.val) THEN Ret(out.val) ELSE Ret("None")

\* Lines 85-93.
connect_to_agent(out) ==
    IF out.kind = "raise"
    THEN IF IsException(out.val) THEN Ret("None") ELSE out
    ELSE IF Truthy(out.val) THEN Ret(out.val) ELSE Ret("None")

\* Faulty variant: the success flag is not looked at.
send_message_unchecked(out) ==
    IF out.kind = "raise"
    THEN IF IsException(out.val) THEN Ret("False") ELSE out
    ELSE Ret("True")

\* Lines 106-116.
send_message(out) ==
    IF out.kind = "raise"
    THEN IF IsException(out.val) THEN Ret("False") ELSE out
    ELSE IF Truthy(out.val) THEN Ret("True") ELSE Ret("False")

\* Line 128: the awaited call's outcome, as it is.
receive_message(out) == out

\* The record of one tool call: its input, what the wrapped call did and
\* what the wrapper did.
CallRecord(p, op, arg, out, res) ==
    [op |-> op, proc |-> p, arg |-> arg, kind |-> out.kind, val |-> out.val,
     rkind |-> res.kind, rval |-> res.val]

\* The tools exist once the import has run to its end (line 73 passed).
CallConnectToAgent(p) ==
    /\ pc[p] = "running"
    /\ \E destination_did \in Dids : \E out \in ConnectOutcomes :
          toolCall' = CallRecord(p, "connect_to_agent", destination_did, out,
                                 connect_to_agent(out))
    /\ UNCHANGED credVars

CallSendMessage(p) ==
    /\ pc[p] = "running"
    /\ \E session \in Sessions \cup {"None"} : \E out \in SendOutcomes(session) :
          toolCall' = CallRecord(p, "send_message", session, out,
                                 send_message(out))
    /\ UNCHANGED credVars

CallReceiveMessage(p) ==
    /\ pc[p] = "running"
    /\ \E session \in Sessions \cup {"None"} : \E out \in ReceiveOutcomes(session) :
          toolCall' = CallRecord(p, "receive_message", session, out,
                                 receive_message(out))
    /\ UNCHANGED credVars

\* Sequential process starts, and tool calls in the processes whose import
\* of the module succeeded.
NextTools ==
    \E p \in Procs :
        \/ StartSeq(p)
        \/ Step(p)
        \/ CallConnectToAgent(p)
        \/ CallSendMessage(p)
        \/ CallReceiveMessage(p)

SpecTools == Init /\ [][NextTools]_vars

----------------------------------------------------------------------------
\* Properties.

\* The call of process p returned (line 72 completed without exception).
Returned(p) == pc[p] \in {"run", "running"}

\* The call of process p is over, one way or the other.
Ended(p) == pc[p] \in {"run", "running", "failed"}

\* The spec's MalformedCredentialError: what the load branch raises.
MalformedCredentialError == {"JSONDecodeError", "KeyError"}

\* The file holds one record with exactly the three fields.
CompleteRecord(text) ==
    /\ LoadError(text) = "none"
    /\ Len(text) = 5
    /\ JsonKeys(text) = {FieldNames[i] : i \in 1..3}

\* C1: for every path without a file (parents missing or not, with or
\* without directory component), a call that meets no storage fault
\* completes without error, the parent directories exist afterwards, the
\* file holds a record of exactly the three fields, and the bundle the call
\* yields, which the node holds, is the one written.
C1_CreatesRecordForEveryPath ==
    \A p \in Procs :
        (~file0.exists /\ ~envFault /\ Ended(p)) =>
            /\ Returned(p)
            /\ Ancestors(Dirname(did_document_path)) \subseteq dirs
            /\ fileExists
            /\ CompleteRecord(fileText)
            /\ LoadBundle(fileText) = did_info[p]
            /\ nodeDid[p] = did_info[p]

\* C1, for the paths that have a directory component only: holds.
C1_CreatesRecordUnderDirectory ==
    \A p \in Procs :
        (~file0.exists /\ ~envFault /\ Ended(p)
           /\ Dirname(did_document_path) # <<>>) =>
            /\ Returned(p)
            /\ Ancestors(Dirname(did_document_path)) \subseteq dirs
            /\ fileExists
            /\ CompleteRecord(fileText)
            /\ LoadBundle(fileText) = did_info[p]
            /\ nodeDid[p] = did_info[p]

\* C2: when the path holds a valid record, every call yields the bundle
\* parsed from it, never generates an identity and writes nothing: the file
\* and the directory tree stay as they were.
C2_ValidRecordLoadedNoWrite ==
    (file0.exists /\ file0.text = ValidRecord) =>
        /\ fileExists /\ fileText = file0.text
        /\ dirs = dirs0
        /\ nextId = 0
        /\ \A p \in Procs :
              /\ ~generated[p] /\ ~wrote[p]
              /\ pc[p] # "failed"
              /\ Returned(p) => /\ did_info[p] = LoadBundle(file0.text)
                                /\ nodeDid[p] = did_info[p]

C2_Witness ==
    \E p \in Procs :
        /\ file0.exists /\ file0.text = ValidRecord
        /\ Returned(p)
        /\ nodeDid[p] = ExistingDid

\* C3: when the file exists but is not valid JSON or lacks one of the three
\* fields, every call fails with MalformedCredentialError, the file and the
\* directories are left as they were, no identity is generated and the node
\* gets none.
C3_MalformedRecordFails ==
    (file0.exists /\ file0.text \in MalformedRecords) =>
        /\ fileExists /\ fileText = file0.text
        /\ dirs = dirs0
        /\ nextId = 0
        /\ \A p \in Procs :
              /\ ~generated[p] /\ ~wrote[p]
              /\ nodeDid[p] = NoDid
              /\ ~Returned(p)
              /\ pc[p] = "failed" => err[p] \in MalformedCredentialError

C3_Witness ==
    \E p, q \in Procs :
        /\ file0.exists
        /\ file0.text \in MalformedRecords
        /\ pc[p] = "failed" /\ err[p] = "KeyError"
        /\ pc[q] = "failed" /\ err[q] = "KeyError"
        /\ p # q
        /\ nodeDid[p] = NoDid /\ fileText = file0.text

\* C4: with the processes starting one after the other on the same path,
\* every call that returns yields the same bundle, the one stored in the
\* file, and the node holds it.
C4_SequentialCallsSameBundle ==
    \A p, q \in Procs :
        (Returned(p) /\ Returned(q)) =>
            /\ did_info[p] = did_info[q]
            /\ nodeDid[p] = did_info[p]
            /\ did_info[p] = LoadBundle(fileText)

C4_Witness ==
    \E p, q \in Procs :
        /\ p # q
        /\ generated[p] /\ ~generated[q]
        /\ Returned(p) /\ Returned(q)
        /\ did_info[q] = did_info[p]

\* C8: the node runs only after generate_did_info returned and gave it an
\* identity; a failed start stays failed (no retry, no fallback identity)
\* and its node never runs.
C8_RunOnlyWithIdentity ==
    [][\A p \in Procs :
          /\ pc[p] = "failed" => pc'[p] = "failed"
          /\ err'[p] # "none" => pc'[p] = "failed"
          /\ pc'[p] = "running" =>
                /\ pc[p] \in {"run", "running"}
                /\ err'[p] = "none"
                /\ nodeDid'[p] # NoDid
                /\ nodeDid'[p] = did_info'[p]]_vars

C8_Witness ==
    \E p, q \in Procs :
        /\ pc[p] = "running" /\ nodeDid[p] # NoDid
        /\ pc[q] = "failed" /\ err[q] # "none"

\* C9: at every point where no write is in progress, also after a write
\* failed part-way, a file that this code created is absent or holds one
\* complete bundle.
C9_NoPartialRecord ==
    (~file0.exists /\ \A p \in Procs : pc[p] # "dump") =>
        (~fileExists \/ CompleteRecord(fileText))

\* C10: when two processes both found the file absent, both generated an
\* identity and both wrote, the file holds the bundle of the one that wrote
\* last and the node of the other holds an identity that is not the one on
\* disk.
C10_LastWriterWins ==
    \A p, q \in Procs :
        (p # q /\ generated[p] /\ generated[q] /\ Returned(p) /\ Returned(q)
           /\ lastWriter = q) =>
            /\ fileText = JsonDump(did_info[q])
            /\ LoadBundle(fileText) = nodeDid[q]
            /\ nodeDid[p] # LoadBundle(fileText)

C10_Witness ==
    \E p, q \in Procs :
        /\ p # q /\ generated[p] /\ generated[q]
        /\ Returned(p) /\ Returned(q)
        /\ lastWriter = q
        /\ LoadBundle(fileText) = nodeDid[q]
        /\ nodeDid[p] # nodeDid[q]

\* C5 as stated: connect_to_agent returns None, and never raises, whatever
\* exception the connect call raises.
C5_ConnectNeverRaises ==
    (toolCall.op = "connect_to_agent" /\ toolCall.kind = "raise") =>
        (toolCall.rkind = "return" /\ toolCall.rval = "None")

\* C5, amended: connect_to_agent returns None when the connect call raises
\* an exception derived from Exception; an exception derived from
\* BaseException only (cancellation, KeyboardInterrupt, SystemExit) leaves
\* the wrapper as it is; a session is returned only when the connect call
\* returned that session.
C5_ConnectCatchesException ==
    toolCall.op = "connect_to_agent" =>
        /\ (toolCall.kind = "raise" /\ IsException(toolCall.val)) =>
              (toolCall.rkind = "return" /\ toolCall.rval = "None")
        /\ (toolCall.kind = "raise" /\ ~IsException(toolCall.val)) =>
              (toolCall.rkind = "raise" /\ toolCall.rval = toolCall.val)
        /\ toolCall.kind = "return" => toolCall.rkind = "return"
        /\ (toolCall.rkind = "return" /\ toolCall.rval # "None") =>
              /\ toolCall.kind = "return"
              /\ toolCall.val = toolCall.rval
              /\ toolCall.rval \in Sessions

C5_Witness ==
    /\ toolCall.op = "connect_to_agent"
    /\ toolCall.kind = "raise" /\ toolCall.val = "ConnectionError"
    /\ toolCall.rkind = "return" /\ toolCall.rval = "None"

\* C6 as stated: send_message returns False, and never raises, whatever
\* exception the send call raises; True exactly on a success signal.
C6_SendNeverRaises ==
    toolCall.op = "send_message" =>
        /\ toolCall.kind = "raise" =>
              (toolCall.rkind = "return" /\ toolCall.rval = "False")
        /\ toolCall.kind = "return" =>
              /\ toolCall.rkind = "return"
              /\ toolCall.rval = "True" <=> toolCall.val = "True"

\* C6, amended: send_message returns False when the send call raises an
\* exception derived from Exception; an exception derived from
\* BaseException only leaves the wrapper as it is; it returns True exactly
\* when the send call returns a success signal and False when that call
\* returns a failure signal.
C6_SendCatchesException ==
    toolCall.op = "send_message" =>
        /\ (toolCall.kind = "raise" /\ IsException(toolCall.val)) =>
              (toolCall.rkind = "return" /\ toolCall.rval = "False")
        /\ (toolCall.kind = "raise" /\ ~IsException(toolCall.val)) =>
              (toolCall.rkind = "raise" /\ toolCall.rval = toolCall.val)
        /\ toolCall.kind = "return" =>
              /\ toolCall.rkind = "return"
              /\ toolCall.rval \in {"True", "False"}
              /\ toolCall.rval = "True" <=> toolCall.val = "True"
        /\ (toolCall.rkind = "return" /\ toolCall.rval = "True") =>
              toolCall.kind = "return"

C6_Witness ==
    /\ toolCall.op = "send_message"
    /\ toolCall.kind = "raise" /\ toolCall.val = "TimeoutError"
    /\ toolCall.rkind = "return" /\ toolCall.rval = "False"

\* C7: receive_message returns None, and no exception escapes, when the
\* receive call of the session raises.
C7_ReceiveNeverRaises ==
    (toolCall.op = "receive_message" /\ toolCall.kind = "raise") =>
        (toolCall.rkind = "return" /\ toolCall.rval = "None")

====
